---- MODULE Spec2Model ----
(***************************************************************************)
(* Model of the entrepedia application: the two serverless handlers        *)
(* (create-post, admin-post-actions), the row-level policies of the        *)
(* messaging migration with the Messages page that runs under them, the    *)
(* follow / join handlers of the profile pages, and the realtime           *)
(* consumers of the Notifications and Messages pages.                      *)
(***************************************************************************)
EXTENDS Integers, Naturals, Sequences, FiniteSets, TLC

\* ------------------------------------------------------------------------
\* Values
\* ------------------------------------------------------------------------
Null == "null"
Empty == ""

\* JavaScript truthiness of a string-or-null value: !v is true for null and ''
Falsy(v) == v = Null \/ v = Empty

\* JavaScript  v || d
OrElse(v, d) == IF Falsy(v) THEN d ELSE v

Users == {"u1", "u2"}
PostIds == <<"p1", "p2">>
BusinessIds == {"b1"}
GhostBusiness == "bX"

\* bounds
MaxRoles == 2
MaxLogs == 1

\* ------------------------------------------------------------------------
\* Database tables used by the serverless handlers
\* ------------------------------------------------------------------------
VARIABLES
  svc,          \* the function whose requests this behaviour follows
  profiles,     \* profiles: user id -> role of the row, or NoRow
  user_roles,   \* user_roles: user id -> number of rows with that user_id
  businesses,   \* businesses: business id -> owner_id
  posts,        \* posts: id of each existing row -> the row
  created,      \* number of posts rows inserted so far (ids are never reused)
  logs,         \* admin_activity_logs, in insertion order
  last,         \* the request being answered, with the response given to it
  before        \* posts, logs and profiles as they were when it arrived

postVars == <<svc, profiles, user_roles, businesses, posts, created, logs,
              last, before>>

\* Database tables and page state of messaging
VARIABLES
  conversations,  \* conversations: id of each existing row -> the row
  messages,       \* messages: id of each existing row -> the row
  sent,           \* number of messages rows inserted so far
  page,           \* the Messages page of one signed-in user
  lastOp          \* the query a client has just made and the rows it returned

msgVars == <<conversations, messages, sent, page, lastOp>>

\* The realtime change feed towards the open page
VARIABLES
  route,          \* the page this behaviour's browser tab has open
  feed,           \* change events published to the page and not yet delivered
  lastEv          \* the event a callback has just consumed, and the list before

rtVars == <<feed, lastEv>>

\* Table notifications and the state of the Notifications page
VARIABLES
  notifications,  \* notifications of the signed-in user: id -> the row
  notified,       \* number of notifications rows inserted so far
  items,          \* Notifications: items
  inflight        \* the response of the load() in flight, or NoLoad

notifVars == <<notifications, notified, items, inflight>>

\* One follows / business_follows / community_members row and the state of
\* the Profile, BusinessProfile and CommunityDetail pages
VARIABLES
  linked,         \* the signed-in user's row for the page's target exists
  ui,             \* isFollowing, followers, followerCount, isMember
  toasts,         \* the toasts the last handler showed
  click           \* the last handler run, the backend's answer, ui before it

socialVars == <<linked, ui, toasts, click>>

\* The browser's auth session and the AdminLogin page
VARIABLES
  session,        \* the user useAuth reports to the page, or Null
  login           \* AdminLogin: loading, and the last handleLogin run

loginVars == <<session, login>>

clientVars == <<route, loginVars, msgVars, rtVars, notifVars, socialVars>>

NoRow == "norow"
DefaultRole == "user"
DefaultHideReason == "Hidden by admin due to report"
DefaultDeleteReason == "Deleted by admin"
HiddenAtNow == "ts"

PostIdSet == {PostIds[i] : i \in 1..Len(PostIds)}

NoRequest ==
  [fn |-> "none", method |-> Null, caller |-> Null, user_id |-> Null,
   content |-> Null, image_url |-> Null, youtube_url |-> Null,
   business_id |-> Null, action |-> Null, post_id |-> Null, reason |-> Null,
   fault |-> "none", status |-> 0, msg |-> Null, writes |-> <<>>]

Functions == {"create-post", "admin-post-actions"}

Snapshot(ps, lg, prof) == [posts |-> ps, logs |-> lg, profiles |-> prof]

\* rows of posts present when the moderation function is followed, as
\* create-post inserted them
SeedPosts ==
  [p \in {PostIds[1], PostIds[2]} |->
     [user_id |-> IF p = PostIds[1] THEN "u1" ELSE "u2",
      content |-> IF p = PostIds[1] THEN "text" ELSE Null,
      image_url |-> IF p = PostIds[1] THEN Null ELSE "img",
      youtube_url |-> Null,
      business_id |-> IF p = PostIds[1] THEN "b1" ELSE Null,
      is_hidden |-> FALSE, hidden_at |-> Null, hidden_reason |-> Null]]

\* u1 holds one or more user_roles rows, u2 none
InitUserRoles == {[u \in Users |-> IF u = "u1" THEN n ELSE 0] : n \in 1..MaxRoles}

InitPosts ==
  /\ svc \in Functions
  /\ user_roles \in InitUserRoles
  /\ profiles \in {[u \in Users |-> IF u = "u2" THEN r ELSE DefaultRole] :
                     r \in {NoRow, "user", "admin"}}
  /\ businesses = [b \in BusinessIds |-> "u1"]
  /\ posts = IF svc = "create-post" THEN <<>> ELSE SeedPosts
  /\ created = IF svc = "create-post" THEN 0 ELSE Len(PostIds)
  /\ logs = <<>>
  /\ last = NoRequest
  /\ before = Snapshot(posts, logs, profiles)

\* ------------------------------------------------------------------------
\* create-post
\* ------------------------------------------------------------------------
CreateFaults == {"none", "badJson", "profileSelect", "profileUpsert",
                 "businessSelect", "postInsert"}

\* profiles.upsert({ id: user_id }, { onConflict: 'id' })
UpsertProfile(prof, uid) ==
  IF prof[uid] = NoRow THEN [prof EXCEPT ![uid] = DefaultRole] ELSE prof

\* the row create-post inserts
NewPost(r) ==
  [user_id |-> r.user_id,
   content |-> OrElse(r.content, Null),
   image_url |-> OrElse(r.image_url, Null),
   youtube_url |-> OrElse(r.youtube_url, Null),
   business_id |-> OrElse(r.business_id, Null),
   is_hidden |-> FALSE, hidden_at |-> Null, hidden_reason |-> Null]

\* posts.insert(row), the database choosing the new row's id
InsertPost(ps, newId, row) ==
  [p \in DOMAIN ps \cup {newId} |-> IF p = newId THEN row ELSE ps[p]]

\* the profile step runs the upsert when the select finds no row or fails
NeedsUpsert(prof, r) == prof[r.user_id] = NoRow \/ r.fault = "profileSelect"

BusinessFound(biz, r) ==
  r.business_id \in DOMAIN biz /\ r.fault # "businessSelect"

\* businessData.owner_id !== user_id, negated
OwnedByM(biz, r) == TRUE

OwnedBy(biz, r) == biz[r.business_id] = r.user_id

\* !content && !image_url && !youtube_url
NoMediaM(r) == r.content = Null /\ r.image_url = Null /\ r.youtube_url = Null

NoMedia(r) == Falsy(r.content) /\ Falsy(r.image_url) /\ Falsy(r.youtube_url)

\* The handler of create-post: the response, the tables after it and the
\* mutating calls it made, for request r on tables prof, biz, ps.
CreatePostHandler(prof, biz, ps, newId, r) ==
  LET out(st, m, prof2, ps2, w) ==
        [status |-> st, msg |-> m, profiles |-> prof2, posts |-> ps2, writes |-> w]
  IN
  IF r.method = "OPTIONS" THEN out(200, Null, prof, ps, <<>>)
  ELSE IF r.fault = "badJson"
    THEN out(500, "Internal server error", prof, ps, <<>>)
  ELSE IF Falsy(r.user_id)
    THEN out(400, "User ID is required", prof, ps, <<>>)
  ELSE IF NeedsUpsert(prof, r) /\ r.fault = "profileUpsert"
    THEN out(400, "Please complete your profile setup first", prof, ps,
             <<"profiles">>)
  ELSE
    LET prof2 == IF NeedsUpsert(prof, r) THEN UpsertProfile(prof, r.user_id) ELSE prof
        w1 == IF NeedsUpsert(prof, r) THEN <<"profiles">> ELSE <<>>
    IN
    IF ~Falsy(r.business_id) /\ ~BusinessFound(biz, r)
      THEN out(404, "Business not found", prof2, ps, w1)
    ELSE IF ~Falsy(r.business_id) /\ ~OwnedBy(biz, r)
      THEN out(403, "You don't have permission to post for this business",
               prof2, ps, w1)
    ELSE IF NoMedia(r)
      THEN out(400, "Post must have content, image, or video", prof2, ps, w1)
    ELSE IF r.fault = "postInsert"
      THEN out(500, "Failed to create post", prof2, ps, Append(w1, "posts"))
    ELSE out(200, "success", prof2, InsertPost(ps, newId, NewPost(r)),
             Append(w1, "posts"))

\* the database call that r.fault names is one the handler makes for r
CreateFaultReached(prof, biz, r) ==
  CASE r.fault = "none" -> TRUE
    [] r.fault = "badJson" -> TRUE
    [] r.fault = "profileSelect" -> ~Falsy(r.user_id)
    [] r.fault = "profileUpsert" -> ~Falsy(r.user_id) /\ NeedsUpsert(prof, r)
    [] r.fault = "businessSelect" -> ~Falsy(r.user_id) /\ ~Falsy(r.business_id)
    [] r.fault = "postInsert" ->
         /\ ~Falsy(r.user_id)
         /\ Falsy(r.business_id) \/ (r.business_id \in DOMAIN biz /\ OwnedBy(biz, r))
         /\ ~NoMedia(r)

\* content, image_url and youtube_url of the requests
Media == {Null, Empty, "text"} \X {Null, "img"} \X {Null, "yt"}

CreateRequests ==
  {[NoRequest EXCEPT !.fn = "create-post", !.method = "POST", !.caller = c,
      !.user_id = u, !.content = m[1], !.image_url = m[2],
      !.youtube_url = m[3], !.business_id = b, !.fault = f] :
     c \in Users, u \in Users \cup {Null}, m \in Media,
     b \in BusinessIds \cup {Null, GhostBusiness},
     f \in CreateFaults \ {"badJson"}}
  \cup
  {[NoRequest EXCEPT !.fn = "create-post", !.method = "POST", !.caller = c,
      !.fault = "badJson"] : c \in Users}

CreatePost ==
  /\ svc = "create-post"
  /\ last = NoRequest
  /\ created < Len(PostIds)
  /\ \E r \in CreateRequests :
       /\ CreateFaultReached(profiles, businesses, r)
       /\ LET res == CreatePostHandler(profiles, businesses, posts,
                                       PostIds[created + 1], r)
          IN /\ profiles' = res.profiles
             /\ posts' = res.posts
             /\ created' = IF res.posts # posts THEN created + 1 ELSE created
             /\ last' = [r EXCEPT !.status = res.status, !.msg = res.msg,
                                  !.writes = res.writes]
  /\ before' = Snapshot(posts, logs, profiles)
  /\ UNCHANGED <<svc, user_roles, businesses, logs>>
  /\ UNCHANGED clientVars

CreatePostPreflight ==
  /\ svc = "create-post"
  /\ last = NoRequest
  /\ \E c \in Users :
       LET r == [NoRequest EXCEPT !.fn = "create-post", !.method = "OPTIONS",
                                  !.caller = c]
           res == CreatePostHandler(profiles, businesses, posts, PostIds[1], r)
       IN last' = [r EXCEPT !.status = res.status, !.msg = res.msg,
                            !.writes = res.writes]
  /\ before' = Snapshot(posts, logs, profiles)
  /\ UNCHANGED <<svc, profiles, user_roles, businesses, posts, created, logs>>
  /\ UNCHANGED clientVars

\* ------------------------------------------------------------------------
\* admin-post-actions
\* ------------------------------------------------------------------------
AdminFaults == {"none", "badJson", "roleSelect", "profileSelect", "mutate",
                "logInsert"}
AdminActions == {"hide", "unhide", "delete"}

\* user_roles .select("role").eq("user_id", user_id).maybeSingle():
\* an error when the query fails or when more than one row matches
RoleError(ur, r) == r.fault = "roleSelect" \/ ur[r.user_id] > 1

AdminRole(ur, r) == ur[r.user_id] = 1

\* profiles .select("role").eq("id", user_id).single(), the fallback check
ProfileIsAdminM(prof, r) ==
  /\ r.fault # "profileSelect"
  /\ prof[r.user_id] # NoRow

ProfileIsAdmin(prof, r) ==
  /\ r.fault # "profileSelect"
  /\ prof[r.user_id] # NoRow
  /\ prof[r.user_id] = "admin"

\* posts.update({is_hidden: true, hidden_at, hidden_reason}).eq("id", post_id)
HidePostM(ps, pid, reason) ==
  IF pid \in DOMAIN ps
    THEN [ps EXCEPT ![pid] = [@ EXCEPT !.is_hidden = TRUE,
                                       !.hidden_at = HiddenAtNow,
                                       !.hidden_reason = reason]]
    ELSE ps

HidePost(ps, pid, reason) ==
  IF pid \in DOMAIN ps
    THEN [ps EXCEPT ![pid] = [@ EXCEPT !.is_hidden = TRUE,
                                       !.hidden_at = HiddenAtNow,
                                       !.hidden_reason = OrElse(reason, DefaultHideReason)]]
    ELSE ps

\* posts.update({is_hidden: false, hidden_at: null, hidden_reason: null})
UnhidePost(ps, pid) ==
  IF pid \in DOMAIN ps
    THEN [ps EXCEPT ![pid] = [@ EXCEPT !.is_hidden = FALSE,
                                       !.hidden_at = Null,
                                       !.hidden_reason = Null]]
    ELSE ps

\* posts.delete().eq("id", post_id)
DeletePost(ps, pid) ==
  [p \in DOMAIN ps \ {pid} |-> ps[p]]

LogRow(r, act, details) ==
  [admin_id |-> r.user_id, action |-> act, target_type |-> "post",
   target_id |-> r.post_id, details |-> details]

\* admin_activity_logs.insert(row); its result is not looked at
InsertLog(lg, r, row) == IF r.fault = "logInsert" THEN lg ELSE Append(lg, row)

\* the mutating calls of a moderation action that got past its posts call:
\* the posts update or delete, then the admin_activity_logs insert
ModerationWritesM == <<"posts", "reports", "admin_activity_logs">>

ModerationWrites == <<"posts", "admin_activity_logs">>

\* The handler of admin-post-actions: the response, the tables after it and
\* the mutating calls it made, for request r on tables ur, prof, ps, lg.
AdminHandler(ur, prof, ps, lg, r) ==
  LET out(st, m, ps2, lg2, w) ==
        [status |-> st, msg |-> m, posts |-> ps2, logs |-> lg2, writes |-> w]
  IN
  IF r.method = "OPTIONS" THEN out(200, "ok", ps, lg, <<>>)
  ELSE IF r.fault = "badJson" THEN out(500, "exception", ps, lg, <<>>)
  ELSE IF Falsy(r.action) \/ Falsy(r.post_id) \/ Falsy(r.user_id)
    THEN out(400, "action, post_id, and user_id are required", ps, lg, <<>>)
  ELSE IF RoleError(ur, r)
    THEN out(500, "Failed to verify admin status", ps, lg, <<>>)
  ELSE IF ~AdminRole(ur, r) /\ ~ProfileIsAdmin(prof, r)
    THEN out(403, "Unauthorized: Admin access required", ps, lg, <<>>)
  ELSE IF r.action = "hide" THEN
    IF r.fault = "mutate" THEN out(500, "updateError", ps, lg, <<"posts">>)
    ELSE out(200, "Post hidden successfully",
             HidePost(ps, r.post_id, r.reason),
             InsertLog(lg, r, LogRow(r, "hide_post",
                                     OrElse(r.reason, DefaultHideReason))),
             ModerationWrites)
  ELSE IF r.action = "delete" THEN
    IF r.fault = "mutate" THEN out(500, "deleteError", ps, lg, <<"posts">>)
    ELSE out(200, "Post deleted successfully",
             DeletePost(ps, r.post_id),
             InsertLog(lg, r, LogRow(r, "delete_post",
                                     OrElse(r.reason, DefaultDeleteReason))),
             ModerationWrites)
  ELSE IF r.action = "unhide" THEN
    IF r.fault = "mutate" THEN out(500, "updateError", ps, lg, <<"posts">>)
    ELSE out(200, "Post unhidden successfully",
             UnhidePost(ps, r.post_id),
             InsertLog(lg, r, LogRow(r, "unhide_post", Null)),
             ModerationWrites)
  ELSE out(400, "Invalid action. Use 'hide', 'unhide', or 'delete'", ps, lg, <<>>)

\* the database call that r.fault names is one the handler makes for r
AdminFaultReached(ur, prof, r) ==
  LET wellFormed == ~(Falsy(r.action) \/ Falsy(r.post_id) \/ Falsy(r.user_id))
      authorized == wellFormed /\ ur[r.user_id] <= 1
                      /\ (ur[r.user_id] = 1 \/ prof[r.user_id] = "admin")
  IN CASE r.fault = "none" -> TRUE
       [] r.fault = "badJson" -> TRUE
       [] r.fault = "roleSelect" -> wellFormed
       [] r.fault = "profileSelect" -> wellFormed /\ ur[r.user_id] = 0
       [] r.fault = "mutate" -> authorized /\ r.action \in AdminActions
       [] r.fault = "logInsert" -> authorized /\ r.action \in AdminActions

AdminRequests ==
  {[NoRequest EXCEPT !.fn = "admin-post-actions", !.method = "POST",
      !.caller = c, !.user_id = u, !.action = a, !.post_id = p,
      !.reason = rs, !.fault = f] :
     c \in Users, u \in Users \cup {Null},
     a \in AdminActions \cup {Null, "purge"},
     p \in PostIdSet \cup {Null}, rs \in {Null, Empty, "spam"},
     f \in AdminFaults \ {"badJson"}}
  \cup
  {[NoRequest EXCEPT !.fn = "admin-post-actions", !.method = "POST",
      !.caller = c, !.fault = "badJson"] : c \in Users}

AdminPostAction ==
  /\ svc = "admin-post-actions"
  /\ last = NoRequest
  /\ Len(logs) < MaxLogs
  /\ \E r \in AdminRequests :
       /\ AdminFaultReached(user_roles, profiles, r)
       /\ LET res == AdminHandler(user_roles, profiles, posts, logs, r)
          IN /\ posts' = res.posts
             /\ logs' = res.logs
             /\ last' = [r EXCEPT !.status = res.status, !.msg = res.msg,
                                  !.writes = res.writes]
  /\ before' = Snapshot(posts, logs, profiles)
  /\ UNCHANGED <<svc, profiles, user_roles, businesses, created>>
  /\ UNCHANGED clientVars

AdminPreflight ==
  /\ svc = "admin-post-actions"
  /\ last = NoRequest
  /\ \E c \in Users :
       LET r == [NoRequest EXCEPT !.fn = "admin-post-actions",
                                  !.method = "OPTIONS", !.caller = c]
           res == AdminHandler(user_roles, profiles, posts, logs, r)
       IN last' = [r EXCEPT !.status = res.status, !.msg = res.msg,
                            !.writes = res.writes]
  /\ before' = Snapshot(posts, logs, profiles)
  /\ UNCHANGED <<svc, profiles, user_roles, businesses, posts, created, logs>>
  /\ UNCHANGED clientVars

\* the response has been sent; the handler is ready for the next request
Return ==
  /\ last # NoRequest
  /\ last' = NoRequest
  /\ before' = Snapshot(posts, logs, profiles)
  /\ UNCHANGED <<svc, profiles, user_roles, businesses, posts, created, logs>>
  /\ UNCHANGED clientVars

\* ------------------------------------------------------------------------
\* Messaging: the tables conversations and messages under the row-level
\* policies of the messaging migration, and the Messages page
\* ------------------------------------------------------------------------
Accounts == {"u1", "u2", "u3"}
ConvIds == {"c1", "c2"}
MsgIds == <<"m1", "m2">>
Routes == {"messages", "notifications", "profile", "business", "community",
           "adminLogin"}

\* bound
MaxDeliveries == 2

NoPage == [user |-> Null, selected |-> Null, messages |-> <<>>]
NoOp == [op |-> "none", caller |-> Null, conv |-> Null, rows |-> {}]
NoEvent == [page |-> "none", type |-> "none", row |-> [id |-> Null], times |-> 0,
            before |-> <<>>]

MsgIdle ==
  /\ conversations = <<>>
  /\ messages = <<>>
  /\ sent = 0
  /\ page = NoPage
  /\ lastOp = NoOp

\* the Messages page of a signed-in user, before a conversation is chosen
InitMsg ==
  /\ conversations =
       [c \in ConvIds |->
          IF c = "c1" THEN [id |-> c, participant_one |-> "u1", participant_two |-> "u2"]
                      ELSE [id |-> c, participant_one |-> "u2", participant_two |-> "u3"]]
  /\ messages = <<>>
  /\ sent = 0
  /\ \E u \in Accounts : page = [NoPage EXCEPT !.user = u]
  /\ lastOp = NoOp

\* policy "Users can view their own conversations":
\* USING (auth.uid() = participant_one OR auth.uid() = participant_two)
ConvSelectPolicyM(uid, c) == TRUE

ConvSelectPolicy(uid, c) == uid = c.participant_one \/ uid = c.participant_two

\* is_conversation_participant(conv_id), for the caller auth.uid()
IsConversationParticipant(uid, convs, cid) ==
  /\ cid \in DOMAIN convs
  /\ uid = convs[cid].participant_one \/ uid = convs[cid].participant_two

\* policy "Conversation participants can view messages"
MsgSelectPolicy(uid, convs, m) == IsConversationParticipant(uid, convs, m.conversation_id)

\* policy "Conversation participants can send messages":
\* WITH CHECK (auth.uid() = sender_id AND is_conversation_participant(conversation_id))
MsgInsertPolicy(uid, convs, m) ==
  uid = m.sender_id /\ IsConversationParticipant(uid, convs, m.conversation_id)

\* policy "Senders can update their messages": USING (auth.uid() = sender_id)
MsgUpdatePolicy(uid, m) == uid = m.sender_id

\* policy "Senders can delete their messages": USING (auth.uid() = sender_id)
MsgDeletePolicy(uid, m) == uid = m.sender_id

\* SELECT on conversations by caller uid: the rows the policy lets through
SelectConversations(uid, convs) ==
  {convs[c] : c \in {x \in DOMAIN convs : ConvSelectPolicy(uid, convs[x])}}

\* SELECT on messages by caller uid
SelectMessages(uid, convs, msgs) ==
  {msgs[m] : m \in {x \in DOMAIN msgs : MsgSelectPolicy(uid, convs, msgs[x])}}

\* UPDATE messages SET is_read = true by caller uid, where ids are the rows
\* its filters match: rows the update policy does not let through are
\* silently left alone
MarkRead(uid, msgs, ids) ==
  [m \in DOMAIN msgs |->
     IF m \in ids /\ MsgUpdatePolicy(uid, msgs[m])
       THEN [msgs[m] EXCEPT !.is_read = TRUE] ELSE msgs[m]]

\* DELETE FROM messages by caller uid, where ids are the rows its filters match
DeleteMessages(uid, msgs, ids) ==
  [m \in {x \in DOMAIN msgs : ~(x \in ids /\ MsgDeletePolicy(uid, msgs[x]))} |->
     msgs[m]]

\* rows in created_at order, which is insertion order
RECURSIVE InOrder(_, _)
InOrder(rows, i) ==
  IF i > Len(MsgIds) THEN <<>>
  ELSE LET here == {r \in rows : r.id = MsgIds[i]}
       IN (IF here = {} THEN <<>> ELSE <<CHOOSE r \in here : TRUE>>)
          \o InOrder(rows, i + 1)

\* the unread count fetchConversations computes for conversation cid
UnreadCount(uid, convs, msgs, cid) ==
  Cardinality({m \in SelectMessages(uid, convs, msgs) :
                 m.conversation_id = cid /\ m.is_read = FALSE /\ m.sender_id # uid})

\* the INSERT event the feed publishes for a new messages row: the channel of
\* the page is filtered on the selected conversation
MessageEvents(row) ==
  IF page.selected = row.conversation_id
    THEN {[type |-> "INSERT", row |-> row]} ELSE {}

\* any authenticated client reads conversations
ClientSelectConversations ==
  /\ route = "messages"
  /\ lastOp = NoOp
  /\ \E uid \in Accounts :
       lastOp' = [op |-> "selectConversations", caller |-> uid, conv |-> Null,
                  rows |-> SelectConversations(uid, conversations)]
  /\ lastEv' = NoEvent
  /\ UNCHANGED <<conversations, messages, sent, page, feed>>
  /\ UNCHANGED <<postVars, route, loginVars, notifVars, socialVars>>

\* any authenticated client reads messages
ClientSelectMessages ==
  /\ route = "messages"
  /\ lastOp = NoOp
  /\ \E uid \in Accounts :
       lastOp' = [op |-> "selectMessages", caller |-> uid, conv |-> Null,
                  rows |-> SelectMessages(uid, conversations, messages)]
  /\ lastEv' = NoEvent
  /\ UNCHANGED <<conversations, messages, sent, page, feed>>
  /\ UNCHANGED <<postVars, route, loginVars, notifVars, socialVars>>

\* any authenticated client inserts a messages row; the insert policy decides
ClientInsertMessage ==
  /\ route = "messages"
  /\ lastOp = NoOp
  /\ sent < Len(MsgIds)
  /\ \E uid \in Accounts, cid \in ConvIds, sender \in Accounts :
       LET row == [id |-> MsgIds[sent + 1], conversation_id |-> cid,
                   sender_id |-> sender, is_read |-> FALSE]
           ok == MsgInsertPolicy(uid, conversations, row)
       IN /\ messages' = IF ok THEN InsertPost(messages, row.id, row) ELSE messages
          /\ sent' = IF ok THEN sent + 1 ELSE sent
          /\ feed' = IF ok THEN feed \cup MessageEvents(row) ELSE feed
          /\ lastOp' = NoOp
  /\ lastEv' = NoEvent
  /\ UNCHANGED <<conversations, page>>
  /\ UNCHANGED <<postVars, route, loginVars, notifVars, socialVars>>

\* any authenticated client sets is_read on one messages row
ClientMarkRead ==
  /\ route = "messages"
  /\ lastOp = NoOp
  /\ \E uid \in Accounts, mid \in DOMAIN messages :
       /\ messages' = MarkRead(uid, messages, {mid})
       /\ lastOp' = NoOp
  /\ lastEv' = NoEvent
  /\ UNCHANGED <<conversations, sent, page, feed>>
  /\ UNCHANGED <<postVars, route, loginVars, notifVars, socialVars>>

\* any authenticated client deletes one messages row
ClientDeleteMessage ==
  /\ route = "messages"
  /\ lastOp = NoOp
  /\ \E uid \in Accounts, mid \in DOMAIN messages :
       /\ messages' = DeleteMessages(uid, messages, {mid})
       /\ lastOp' = NoOp
  /\ lastEv' = NoEvent
  /\ UNCHANGED <<conversations, sent, page, feed>>
  /\ UNCHANGED <<postVars, route, loginVars, notifVars, socialVars>>

\* Messages.loadConversation of the signed-in user: select the conversation,
\* fetchMessages, mark the other participant's messages read.  Choosing
\* another conversation replaces the channel.
LoadConversation ==
  /\ route = "messages"
  /\ lastOp = NoOp
  /\ \E cid \in ConvIds :
       /\ \E c \in SelectConversations(page.user, conversations) : c.id = cid
       /\ LET u == page.user
              fetched == {m \in SelectMessages(u, conversations, messages) :
                            m.conversation_id = cid}
              unread == {x \in DOMAIN messages :
                           /\ messages[x].conversation_id = cid
                           /\ messages[x].sender_id # u
                           /\ messages[x].is_read = FALSE}
          IN /\ page' = [user |-> u, selected |-> cid, messages |-> InOrder(fetched, 1)]
             /\ messages' = MarkRead(u, messages, unread)
             /\ feed' = {e \in feed : e.row.conversation_id = cid}
             /\ lastOp' = [op |-> "fetchMessages", caller |-> u, conv |-> cid,
                           rows |-> fetched]
  /\ lastEv' = NoEvent
  /\ UNCHANGED <<conversations, sent>>
  /\ UNCHANGED <<postVars, route, loginVars, notifVars, socialVars>>

\* the caller has taken what its query or handler returned; the next
\* operation starts
OperationDone ==
  /\ route = "messages"
  /\ lastOp # NoOp
  /\ lastOp' = NoOp
  /\ UNCHANGED <<conversations, messages, sent, page, rtVars>>
  /\ UNCHANGED <<postVars, route, loginVars, notifVars, socialVars>>

\* policy "Participants can delete their conversations"
ConvDeletePolicy(uid, c) == uid = c.participant_one \/ uid = c.participant_two

\* foreign key messages_conversation_id_fkey (conversation_id is nullable):
\* its ON DELETE action is not in the source, so each of the three is allowed
FkActionsM == {"none"}

FkActions == {"cascade", "setNull", "noAction"}

\* DELETE FROM conversations WHERE id = cid by caller uid, with the foreign
\* key from messages acting as fk: a row the policy does not let through is
\* silently left alone; a row still referenced fails under NO ACTION
DeleteConversation(uid, convs, msgs, cid, fk) ==
  LET allowed == cid \in DOMAIN convs /\ ConvDeletePolicy(uid, convs[cid])
      refs == {x \in DOMAIN msgs : msgs[x].conversation_id = cid}
  IN IF ~allowed THEN [error |-> FALSE, conversations |-> convs, messages |-> msgs]
     ELSE IF fk = "noAction" /\ refs # {}
       THEN [error |-> TRUE, conversations |-> convs, messages |-> msgs]
     ELSE [error |-> FALSE,
           conversations |-> [c \in DOMAIN convs \ {cid} |-> convs[c]],
           messages |->
             CASE fk = "cascade" -> [x \in DOMAIN msgs \ refs |-> msgs[x]]
               [] fk = "setNull" ->
                    [x \in DOMAIN msgs |->
                       IF x \in refs THEN [msgs[x] EXCEPT !.conversation_id = Null]
                                     ELSE msgs[x]]
               [] OTHER -> msgs]

\* Messages.handleDeleteConversation of the signed-in user for a conversation
\* of the list: delete the messages (result not looked at), delete the
\* conversation, and on success clear the selection and report it
HandleDeleteConversation ==
  /\ route = "messages"
  /\ lastOp = NoOp
  /\ \E c \in SelectConversations(page.user, conversations),
        fk \in FkActions, fault \in BOOLEAN :
       LET u == page.user
           mine == {x \in DOMAIN messages : messages[x].conversation_id = c.id}
           afterMessages == DeleteMessages(u, messages, mine)
           res == DeleteConversation(u, conversations, afterMessages, c.id, fk)
           failed == fault \/ res.error
           cleared == ~failed /\ page.selected = c.id
       IN /\ messages' = IF failed THEN afterMessages ELSE res.messages
          /\ conversations' = IF failed THEN conversations ELSE res.conversations
          /\ page' = IF cleared THEN [page EXCEPT !.selected = Null, !.messages = <<>>]
                                ELSE page
          /\ feed' = IF cleared THEN {} ELSE feed
          /\ lastOp' = [op |-> IF failed THEN "Error deleting chat"
                                         ELSE "Chat deleted successfully",
                        caller |-> u, conv |-> c.id,
                        rows |-> {messages[x] : x \in mine}]
  /\ lastEv' = NoEvent
  /\ UNCHANGED sent
  /\ UNCHANGED <<postVars, route, loginVars, notifVars, socialVars>>

\* Messages.handleSend of the signed-in user, in the selected conversation
HandleSend ==
  /\ route = "messages"
  /\ lastOp = NoOp
  /\ page.user # Null /\ page.selected # Null
  /\ sent < Len(MsgIds)
  /\ LET row == [id |-> MsgIds[sent + 1], conversation_id |-> page.selected,
                 sender_id |-> page.user, is_read |-> FALSE]
         ok == MsgInsertPolicy(page.user, conversations, row)
     IN /\ messages' = IF ok THEN InsertPost(messages, row.id, row) ELSE messages
        /\ sent' = IF ok THEN sent + 1 ELSE sent
        /\ feed' = IF ok THEN feed \cup MessageEvents(row) ELSE feed
        /\ lastOp' = NoOp
  /\ lastEv' = NoEvent
  /\ UNCHANGED <<conversations, page>>
  /\ UNCHANGED <<postVars, route, loginVars, notifVars, socialVars>>

\* setMessages((prev) => [...prev, newMsg])
MessagesOnInsertM(prev, newMsg) ==
  IF \E i \in DOMAIN prev : prev[i].id = newMsg.id THEN prev ELSE Append(prev, newMsg)

MessagesOnInsert(prev, newMsg) == Append(prev, newMsg)

\* the Messages realtime INSERT callback, run on payload row newMsg
MessagesCallback(newMsg, times) ==
  /\ page' = [page EXCEPT !.messages = MessagesOnInsert(@, newMsg)]
  /\ messages' = IF newMsg.sender_id # page.user
                   THEN MarkRead(page.user, messages, {newMsg.id})
                   ELSE messages
  /\ lastEv' = [page |-> "messages", type |-> "INSERT", row |-> newMsg,
                times |-> times, before |-> page.messages]
  /\ lastOp' = NoOp

\* the feed delivers an event to the Messages page
MessagesRealtimeInsert ==
  /\ route = "messages"
  /\ lastOp = NoOp
  /\ \E e \in feed :
       /\ feed' = feed \ {e}
       /\ MessagesCallback(e.row, 1)
  /\ UNCHANGED <<conversations, sent>>
  /\ UNCHANGED <<postVars, route, loginVars, notifVars, socialVars>>

\* the feed delivers the event it has just delivered a further time
MessagesRedelivery ==
  /\ route = "messages"
  /\ lastOp = NoOp
  /\ lastEv.page = "messages"
  /\ lastEv.times < MaxDeliveries
  /\ MessagesCallback(lastEv.row, lastEv.times + 1)
  /\ UNCHANGED <<conversations, sent, feed>>
  /\ UNCHANGED <<postVars, route, loginVars, notifVars, socialVars>>

\* ------------------------------------------------------------------------
\* Table notifications and the Notifications page
\* ------------------------------------------------------------------------
NotifIds == <<"n1", "n2">>
SessionUser == "u1"
Outcomes == {"ok", "error"}

\* .limit(50) of load(), and prev.slice(0, 49) of the INSERT callback
PageLimit == 50
KeptOnInsert == 49

NoLoad == [open |-> FALSE, error |-> FALSE, data |-> <<>>]

NotifIdle ==
  /\ notifications = <<>>
  /\ notified = 0
  /\ items = <<>>
  /\ inflight = NoLoad

\* s.slice(0, n)
Slice(s, n) == SubSeq(s, 1, IF Len(s) < n THEN Len(s) ELSE n)

\* the rows of table tbl, newest first
RECURSIVE NewestFirst(_, _)
NewestFirst(tbl, i) ==
  IF i = 0 THEN <<>>
  ELSE (IF NotifIds[i] \in DOMAIN tbl THEN <<tbl[NotifIds[i]]>> ELSE <<>>)
       \o NewestFirst(tbl, i - 1)

\* select ... order("created_at", { ascending: false }).limit(50)
SelectNotifications(tbl) == Slice(NewestFirst(tbl, Len(NotifIds)), PageLimit)

\* the page as mounted for a signed-in user: the auth effect has called
\* load(), whose query has been answered from the table as it was
InitNotif ==
  /\ \E k \in {0, 1}, r \in BOOLEAN :
       /\ notified = k
       /\ notifications =
            [n \in {NotifIds[i] : i \in 1..k} |->
               [id |-> n, user_id |-> SessionUser, is_read |-> r]]
  /\ items = <<>>
  /\ \E err \in BOOLEAN :
       inflight = [open |-> TRUE, error |-> err,
                   data |-> IF err THEN <<>> ELSE SelectNotifications(notifications)]

\* update({ is_read: true }) on the rows of tbl among ids
UpdateRead(tbl, ids) ==
  [n \in DOMAIN tbl |-> IF n \in ids THEN [tbl[n] EXCEPT !.is_read = TRUE] ELSE tbl[n]]

\* the events the feed publishes for that update
UpdateEvents(tbl, ids) ==
  {[type |-> "UPDATE", row |-> [tbl[n] EXCEPT !.is_read = TRUE]] :
     n \in ids \cap DOMAIN tbl}

\* delete() of the rows of tbl among ids
DeleteRows(tbl, ids) == [n \in DOMAIN tbl \ ids |-> tbl[n]]

\* the events the feed publishes for that delete: payload.old carries the id
DeleteEvents(tbl, ids) ==
  {[type |-> "DELETE", row |-> [id |-> n]] : n \in ids \cap DOMAIN tbl}

\* setItems((prev) => [newNotification, ...prev.slice(0, 49)])
OnInsert(prev, newNotification) == <<newNotification>> \o Slice(prev, KeptOnInsert)

\* setItems((prev) => prev.map((n) => (n.id === updated.id ? updated : n)))
OnUpdateM(prev, updatedNotification) ==
  IF \E i \in DOMAIN prev : prev[i].id = updatedNotification.id
    THEN [i \in DOMAIN prev |->
            IF prev[i].id = updatedNotification.id THEN updatedNotification ELSE prev[i]]
    ELSE <<updatedNotification>> \o prev

OnUpdate(prev, updatedNotification) ==
  [i \in DOMAIN prev |->
     IF prev[i].id = updatedNotification.id THEN updatedNotification ELSE prev[i]]

\* setItems((prev) => prev.filter((n) => n.id !== deletedId))
RECURSIVE OnDelete(_, _)
OnDelete(prev, deletedId) ==
  IF prev = <<>> THEN <<>>
  ELSE (IF Head(prev).id # deletedId THEN <<Head(prev)>> ELSE <<>>)
       \o OnDelete(Tail(prev), deletedId)

\* setItems(prev => prev.map(n => ({ ...n, is_read: true })))
AllRead(prev) == [i \in DOMAIN prev |-> [prev[i] EXCEPT !.is_read = TRUE]]

\* the backend inserts a notification for the signed-in user
InsertNotification ==
  /\ route = "notifications"
  /\ session = SessionUser
  /\ notified < Len(NotifIds)
  /\ LET row == [id |-> NotifIds[notified + 1], user_id |-> SessionUser,
                 is_read |-> FALSE]
     IN /\ notifications' = InsertPost(notifications, row.id, row)
        /\ feed' = feed \cup {[type |-> "INSERT", row |-> row]}
  /\ notified' = notified + 1
  /\ lastEv' = NoEvent
  /\ UNCHANGED <<items, inflight>>
  /\ UNCHANGED <<postVars, route, loginVars, msgVars, socialVars>>

\* the user marks a notification read in another session
OtherSessionRead ==
  /\ route = "notifications"
  /\ session = SessionUser
  /\ \E n \in DOMAIN notifications :
       /\ ~notifications[n].is_read
       /\ notifications' = UpdateRead(notifications, {n})
       /\ feed' = feed \cup UpdateEvents(notifications, {n})
  /\ lastEv' = NoEvent
  /\ UNCHANGED <<notified, items, inflight>>
  /\ UNCHANGED <<postVars, route, loginVars, msgVars, socialVars>>

\* the user deletes a notification in another session
OtherSessionDelete ==
  /\ route = "notifications"
  /\ session = SessionUser
  /\ \E n \in DOMAIN notifications :
       /\ notifications' = DeleteRows(notifications, {n})
       /\ feed' = feed \cup DeleteEvents(notifications, {n})
  /\ lastEv' = NoEvent
  /\ UNCHANGED <<notified, items, inflight>>
  /\ UNCHANGED <<postVars, route, loginVars, msgVars, socialVars>>

\* Notifications.load, after the await: the response of the load() in flight
LoadResponse ==
  /\ route = "notifications"
  /\ inflight.open
  /\ items' = IF inflight.error THEN <<>> ELSE inflight.data
  /\ inflight' = [NoLoad EXCEPT !.error = inflight.error]
  /\ lastEv' = NoEvent
  /\ UNCHANGED <<notifications, notified, feed>>
  /\ UNCHANGED <<postVars, route, loginVars, msgVars, socialVars>>

\* Notifications.load up to the await, from the Refresh button (disabled
\* while loading): the query is answered from the table as it is
LoadRequest ==
  /\ route = "notifications"
  /\ session = SessionUser
  /\ ~inflight.open
  /\ \E err \in BOOLEAN :
       inflight' = [open |-> TRUE, error |-> err,
                    data |-> IF err THEN <<>> ELSE SelectNotifications(notifications)]
  /\ lastEv' = NoEvent
  /\ UNCHANGED <<notifications, notified, items, feed>>
  /\ UNCHANGED <<postVars, route, loginVars, msgVars, socialVars>>

\* the user signs out: userId becomes null, the auth effect empties items
\* and the cleanup of the realtime effect removes the channel
SignOutOfNotifications ==
  /\ route = "notifications"
  /\ session = SessionUser
  /\ session' = Null
  /\ items' = <<>>
  /\ feed' = {}
  /\ lastEv' = NoEvent
  /\ UNCHANGED <<notifications, notified, inflight>>
  /\ UNCHANGED <<postVars, route, login, msgVars, socialVars>>

\* Notifications.handleNotificationClick on an unread entry of items; the
\* result of the update is not looked at
HandleNotificationClick ==
  /\ route = "notifications"
  /\ session = SessionUser
  /\ \E i \in DOMAIN items, outcome \in Outcomes :
       /\ ~items[i].is_read
       /\ LET ids == IF outcome = "ok" THEN {items[i].id} ELSE {}
          IN /\ notifications' = UpdateRead(notifications, ids)
             /\ feed' = feed \cup UpdateEvents(notifications, ids)
       /\ items' = [j \in DOMAIN items |->
                      IF items[j].id = items[i].id
                        THEN [items[j] EXCEPT !.is_read = TRUE] ELSE items[j]]
  /\ lastEv' = NoEvent
  /\ UNCHANGED <<notified, inflight>>
  /\ UNCHANGED <<postVars, route, loginVars, msgVars, socialVars>>

\* Notifications.markAllAsRead
MarkAllAsRead ==
  /\ route = "notifications"
  /\ session = SessionUser
  /\ \E outcome \in Outcomes :
       LET ids == {n \in DOMAIN notifications : ~notifications[n].is_read}
       IN IF outcome = "ok"
            THEN /\ notifications' = UpdateRead(notifications, ids)
                 /\ feed' = feed \cup UpdateEvents(notifications, ids)
                 /\ items' = AllRead(items)
            ELSE UNCHANGED <<notifications, feed, items>>
  /\ lastEv' = NoEvent
  /\ UNCHANGED <<notified, inflight>>
  /\ UNCHANGED <<postVars, route, loginVars, msgVars, socialVars>>

\* Notifications.handleDeleteNotification of an entry of items
HandleDeleteNotification ==
  /\ route = "notifications"
  /\ session = SessionUser
  /\ \E i \in DOMAIN items, outcome \in Outcomes :
       LET notificationToDelete == items[i].id
       IN IF outcome = "ok"
            THEN /\ notifications' = DeleteRows(notifications, {notificationToDelete})
                 /\ feed' = feed \cup DeleteEvents(notifications, {notificationToDelete})
                 /\ items' = OnDelete(items, notificationToDelete)
            ELSE UNCHANGED <<notifications, feed, items>>
  /\ lastEv' = NoEvent
  /\ UNCHANGED <<notified, inflight>>
  /\ UNCHANGED <<postVars, route, loginVars, msgVars, socialVars>>

\* Notifications.clearAllNotifications
ClearAllNotifications ==
  /\ route = "notifications"
  /\ session = SessionUser
  /\ \E outcome \in Outcomes :
       IF outcome = "ok"
         THEN /\ notifications' = <<>>
              /\ feed' = feed \cup DeleteEvents(notifications, DOMAIN notifications)
              /\ items' = <<>>
         ELSE UNCHANGED <<notifications, feed, items>>
  /\ lastEv' = NoEvent
  /\ UNCHANGED <<notified, inflight>>
  /\ UNCHANGED <<postVars, route, loginVars, msgVars, socialVars>>

\* the Notifications realtime INSERT, UPDATE and DELETE callbacks, run on
\* an event of that type with payload row
NotificationsCallback(type, row, times) ==
  /\ items' = CASE type = "INSERT" -> OnInsert(items, row)
                 [] type = "UPDATE" -> OnUpdate(items, row)
                 [] type = "DELETE" -> OnDelete(items, row.id)
  /\ lastEv' = [page |-> "notifications", type |-> type, row |-> row,
                times |-> times, before |-> items]

\* the feed delivers an event to the Notifications page
NotificationsRealtime ==
  /\ route = "notifications"
  /\ session = SessionUser
  /\ \E e \in feed :
       /\ feed' = feed \ {e}
       /\ NotificationsCallback(e.type, e.row, 1)
  /\ UNCHANGED <<notifications, notified, inflight>>
  /\ UNCHANGED <<postVars, route, loginVars, msgVars, socialVars>>

\* the feed delivers the event it has just delivered a further time
NotificationsRedelivery ==
  /\ route = "notifications"
  /\ session = SessionUser
  /\ lastEv.page = "notifications"
  /\ lastEv.times < MaxDeliveries
  /\ NotificationsCallback(lastEv.type, lastEv.row, lastEv.times + 1)
  /\ UNCHANGED <<notifications, notified, inflight, feed>>
  /\ UNCHANGED <<postVars, route, loginVars, msgVars, socialVars>>

\* ------------------------------------------------------------------------
\* Profile, BusinessProfile and CommunityDetail: follow and join handlers
\* ------------------------------------------------------------------------
OtherFollower == "u2"

\* bound
MaxFollowers == 3

NoUi == [isFollowing |-> FALSE, followers |-> <<>>, followerCount |-> 0,
         isMember |-> FALSE, currentUserProfile |-> Null]
NoClick == [handler |-> "none", outcome |-> "none", before |-> NoUi]

JoinedToast == "Joined community!"
LeftToast == "Left community"
JoinErrorToast == "Error joining community"
LeaveErrorToast == "Error leaving community"
LoadErrorToast == "Error loading community"

SocialIdle ==
  /\ linked = FALSE
  /\ ui = NoUi
  /\ toasts = {}
  /\ click = NoClick

\* a page as mounted, before its fetch has answered
InitSocial ==
  /\ linked \in BOOLEAN
  /\ \E me \in {Null, SessionUser} : ui = [NoUi EXCEPT !.currentUserProfile = me]
  /\ toasts = {}
  /\ click = NoClick

\* the follower ids of the page's target: another user and, if the row
\* exists, the signed-in user
FollowerIds(row) == <<OtherFollower>> \o (IF row THEN <<SessionUser>> ELSE <<>>)

\* the table after the mutation a handler issues: an error leaves it alone
Mutated(row, insert, outcome) == IF outcome = "ok" THEN insert ELSE row

\* the user follows, unfollows, joins or leaves in another session
OtherSessionToggle ==
  /\ route \in {"profile", "business", "community"}
  /\ linked' = ~linked
  /\ toasts' = {}
  /\ click' = NoClick
  /\ UNCHANGED ui
  /\ UNCHANGED <<postVars, route, loginVars, msgVars, rtVars, notifVars>>

\* Profile.fetchProfileData
FetchProfileData ==
  /\ route = "profile"
  /\ ui' = [ui EXCEPT !.followers = FollowerIds(linked), !.isFollowing = linked]
  /\ toasts' = {}
  /\ click' = NoClick
  /\ UNCHANGED linked
  /\ UNCHANGED <<postVars, route, loginVars, msgVars, rtVars, notifVars>>

\* BusinessProfile.fetchBusinessData
FetchBusinessData ==
  /\ route = "business"
  /\ ui' = [ui EXCEPT !.followerCount = Len(FollowerIds(linked)),
                      !.isFollowing = linked]
  /\ toasts' = {}
  /\ click' = NoClick
  /\ UNCHANGED linked
  /\ UNCHANGED <<postVars, route, loginVars, msgVars, rtVars, notifVars>>

\* what CommunityDetail.fetchCommunityData leaves in isMember and shows:
\* the communities query may fail (toast), the members query may fail
\* (membersData is null)
RefreshOutcomes == {"ok", "communityError", "membersError"}

RefreshedMember(isMember, row, refresh) ==
  CASE refresh = "ok" -> row
    [] refresh = "membersError" -> FALSE
    [] refresh = "communityError" -> isMember

RefreshToasts(refresh) == IF refresh = "communityError" THEN {LoadErrorToast} ELSE {}

\* CommunityDetail.fetchCommunityData
FetchCommunityData ==
  /\ route = "community"
  /\ \E refresh \in RefreshOutcomes :
       /\ ui' = [ui EXCEPT !.isMember = RefreshedMember(@, linked, refresh)]
       /\ toasts' = RefreshToasts(refresh)
  /\ click' = NoClick
  /\ UNCHANGED linked
  /\ UNCHANGED <<postVars, route, loginVars, msgVars, rtVars, notifVars>>

\* prev.filter(f => f.id !== user.id)
RECURSIVE WithoutUser(_, _)
WithoutUser(prev, uid) ==
  IF prev = <<>> THEN <<>>
  ELSE (IF Head(prev) # uid THEN <<Head(prev)>> ELSE <<>>) \o WithoutUser(Tail(prev), uid)

\* Profile.handleFollow: the awaited delete or insert resolves to a result
\* whose error is not looked at
ProfileHandleFollow ==
  /\ route = "profile"
  /\ \E outcome \in Outcomes :
       /\ linked' = Mutated(linked, ~ui.isFollowing, outcome)
       /\ click' = [handler |-> "Profile.handleFollow", outcome |-> outcome,
                    before |-> ui]
  /\ ui.isFollowing \/ ui.currentUserProfile = Null \/ Len(ui.followers) < MaxFollowers
  /\ ui' = IF ui.isFollowing
             THEN [ui EXCEPT !.isFollowing = FALSE,
                             !.followers = WithoutUser(@, SessionUser)]
             ELSE [ui EXCEPT !.isFollowing = TRUE,
                             !.followers = IF ui.currentUserProfile # Null
                                             THEN Append(@, ui.currentUserProfile)
                                             ELSE @]
  /\ toasts' = {}
  /\ UNCHANGED <<postVars, route, loginVars, msgVars, rtVars, notifVars>>

\* BusinessProfile.handleFollow
BusinessHandleFollow ==
  /\ route = "business"
  /\ \E outcome \in Outcomes :
       /\ linked' = Mutated(linked, ~ui.isFollowing, outcome)
       /\ click' = [handler |-> "BusinessProfile.handleFollow", outcome |-> outcome,
                    before |-> ui]
  /\ ui' = IF ui.isFollowing
             THEN [ui EXCEPT !.isFollowing = FALSE, !.followerCount = @ - 1]
             ELSE [ui EXCEPT !.isFollowing = TRUE, !.followerCount = @ + 1]
  /\ ui'.followerCount \in -MaxFollowers..MaxFollowers
  /\ toasts' = {}
  /\ UNCHANGED <<postVars, route, loginVars, msgVars, rtVars, notifVars>>

\* CommunityDetail.handleJoin, with the fetchCommunityData it ends in
HandleJoin ==
  /\ route = "community"
  /\ \E outcome \in Outcomes, refresh \in RefreshOutcomes :
       /\ linked' = Mutated(linked, TRUE, outcome)
       /\ ui' = [ui EXCEPT !.isMember = RefreshedMember(TRUE, linked', refresh)]
       /\ toasts' = {JoinedToast} \cup RefreshToasts(refresh)
       /\ click' = [handler |-> "CommunityDetail.handleJoin", outcome |-> outcome,
                    before |-> ui]
  /\ UNCHANGED <<postVars, route, loginVars, msgVars, rtVars, notifVars>>

\* CommunityDetail.handleLeave, with the fetchCommunityData it ends in
HandleLeave ==
  /\ route = "community"
  /\ \E outcome \in Outcomes, refresh \in RefreshOutcomes :
       /\ linked' = Mutated(linked, FALSE, outcome)
       /\ ui' = [ui EXCEPT !.isMember = RefreshedMember(FALSE, linked', refresh)]
       /\ toasts' = {LeftToast} \cup RefreshToasts(refresh)
       /\ click' = [handler |-> "CommunityDetail.handleLeave", outcome |-> outcome,
                    before |-> ui]
  /\ UNCHANGED <<postVars, route, loginVars, msgVars, rtVars, notifVars>>

\* ------------------------------------------------------------------------
\* AdminLogin: password sign-in followed by a user_roles query
\* ------------------------------------------------------------------------
SignInOutcomes == {"user", "error", "noUser", "throws"}
RolesOutcomes == {"rows", "error", "throws"}
SignOutOutcomes == {"ok", "error", "throws"}

NoAttempt == [valid |-> FALSE, user |-> Null, signIn |-> "none", roles |-> "none",
              signOut |-> "none"]
NoLogin == [loading |-> FALSE, ran |-> FALSE, attempt |-> NoAttempt,
            navigated |-> FALSE, toast |-> Null]

LoginIdle ==
  /\ session = Null
  /\ login = NoLogin

\* one submission of the form: whether validate() passes, the account the
\* credentials belong to, and what each awaited call answers ("none" for a
\* call the run does not reach)
Attempts ==
  [valid : BOOLEAN, user : Users, signIn : SignInOutcomes \cup {"none"},
   roles : RolesOutcomes \cup {"none"}, signOut : SignOutOutcomes \cup {"none"}]

\* rolesError || !roles || roles.length === 0
RolesDenied(ur, a) == a.roles = "error" \/ ur[a.user] = 0

\* the user_roles check of AdminLogin on the rows of the table
AdminLoginAdmits(ur, uid) == ur[uid] >= 1

LoginReached(ur, a) ==
  /\ (a.signIn # "none") <=> a.valid
  /\ (a.roles # "none") <=> (a.signIn = "user")
  /\ (a.signOut # "none") <=> (a.roles \in {"rows", "error"} /\ RolesDenied(ur, a))

\* supabase.auth.signOut(): the session is removed when the call succeeds
SignOut(sess, outcome) == IF outcome = "ok" THEN Null ELSE sess

\* handleLogin from the submit to its return
HandleLoginRun(ur, sess, loading, a) ==
  LET signedIn == IF a.signIn = "user" THEN a.user ELSE sess
      end(se, nav, t) == [session |-> se, navigated |-> nav, toast |-> t,
                          loading |-> FALSE]
  IN  IF ~a.valid THEN [session |-> sess, navigated |-> FALSE, toast |-> Null,
                        loading |-> loading]
      ELSE IF a.signIn = "throws" THEN end(sess, FALSE, "Error")
      ELSE IF a.signIn \in {"error", "noUser"} THEN end(sess, FALSE, "Login failed")
      ELSE IF a.roles = "throws" THEN end(signedIn, FALSE, "Error")
      ELSE IF RolesDenied(ur, a)
        THEN IF a.signOut = "throws" THEN end(signedIn, FALSE, "Error")
             ELSE end(SignOut(signedIn, a.signOut), FALSE, "Access denied")
      ELSE end(signedIn, TRUE, "Welcome back!")

HandleLogin ==
  /\ route = "adminLogin"
  /\ \E a \in Attempts :
       /\ LoginReached(user_roles, a)
       /\ LET res == HandleLoginRun(user_roles, session, login.loading, a)
          IN /\ session' = res.session
             /\ login' = [loading |-> res.loading, ran |-> TRUE, attempt |-> a,
                          navigated |-> res.navigated, toast |-> res.toast]
  /\ UNCHANGED <<postVars, route, msgVars, rtVars, notifVars, socialVars>>

\* ------------------------------------------------------------------------
\* Specifications
\* ------------------------------------------------------------------------
PostsIdle ==
  /\ svc = "none"
  /\ profiles = <<>>
  /\ businesses = <<>>
  /\ posts = <<>>
  /\ created = 0
  /\ logs = <<>>
  /\ last = NoRequest
  /\ before = Snapshot(<<>>, <<>>, <<>>)

ClientIdle ==
  /\ route = "none"
  /\ LoginIdle
  /\ MsgIdle
  /\ feed = {} /\ lastEv = NoEvent
  /\ NotifIdle
  /\ SocialIdle

vars == <<postVars, clientVars>>

\* the serverless functions
Init == InitPosts /\ ClientIdle

Next ==
  \/ CreatePost
  \/ CreatePostPreflight
  \/ AdminPostAction
  \/ AdminPreflight
  \/ Return

Spec == Init /\ [][Next]_vars

\* one browser tab with one page open
InitClient ==
  /\ PostsIdle
  /\ route \in Routes
  /\ user_roles \in (IF route = "adminLogin" THEN InitUserRoles ELSE {<<>>})
  /\ session = (IF route = "notifications" THEN SessionUser ELSE Null)
  /\ login = NoLogin
  /\ feed = {} /\ lastEv = NoEvent
  /\ IF route = "messages" THEN InitMsg ELSE MsgIdle
  /\ IF route = "notifications" THEN InitNotif ELSE NotifIdle
  /\ IF route \in {"profile", "business", "community"} THEN InitSocial ELSE SocialIdle

NextClient ==
  \/ HandleLogin
  \/ ClientSelectConversations
  \/ ClientSelectMessages
  \/ ClientInsertMessage
  \/ ClientMarkRead
  \/ ClientDeleteMessage
  \/ LoadConversation
  \/ HandleSend
  \/ HandleDeleteConversation
  \/ OperationDone
  \/ MessagesRealtimeInsert
  \/ MessagesRedelivery
  \/ InsertNotification
  \/ OtherSessionRead
  \/ OtherSessionDelete
  \/ LoadResponse
  \/ HandleNotificationClick
  \/ MarkAllAsRead
  \/ HandleDeleteNotification
  \/ ClearAllNotifications
  \/ NotificationsRealtime
  \/ NotificationsRedelivery
  \/ OtherSessionToggle
  \/ FetchProfileData
  \/ FetchBusinessData
  \/ FetchCommunityData
  \/ ProfileHandleFollow
  \/ BusinessHandleFollow
  \/ HandleJoin
  \/ HandleLeave

SpecClient == InitClient /\ [][NextClient]_vars

\* The Notifications page of a signed-in user under a feed that delivers
\* every event once, with Refresh and sign-out
InitNotifications == InitClient /\ route = "notifications"

NextNotifications ==
  \/ InsertNotification
  \/ OtherSessionRead
  \/ OtherSessionDelete
  \/ LoadRequest
  \/ LoadResponse
  \/ HandleNotificationClick
  \/ MarkAllAsRead
  \/ HandleDeleteNotification
  \/ ClearAllNotifications
  \/ NotificationsRealtime
  \/ SignOutOfNotifications

SpecNotifications == InitNotifications /\ [][NextNotifications]_vars

\* ------------------------------------------------------------------------
\* Properties of the serverless handlers
\* ------------------------------------------------------------------------
\* content, image_url and youtube_url of request r are all missing or empty
AllMediaBlank(r) ==
  /\ r.content \in {Null, Empty}
  /\ r.image_url \in {Null, Empty}
  /\ r.youtube_url \in {Null, Empty}

Answered(f) == last.fn = f /\ last.method = "POST" /\ last.fault # "badJson"

PostsUnchanged == posts = before.posts
LogsUnchanged == logs = before.logs

\* u has a row in user_roles or, lacking one, has profiles.role = 'admin'
IsAdminUser(u) ==
  /\ u \in Users
  /\ user_roles[u] >= 1 \/ profiles[u] = "admin"

\* C1 as stated: admin-post-actions changes posts or admin_activity_logs only
\* for a user_id that is an admin user, and answers every request carrying
\* another user_id with 403, changing nothing.
C1_Original ==
  Answered("admin-post-actions") =>
    /\ (~PostsUnchanged \/ ~LogsUnchanged) => IsAdminUser(last.user_id)
    /\ (last.user_id \in Users /\ ~IsAdminUser(last.user_id)) =>
         last.status = 403 /\ PostsUnchanged /\ LogsUnchanged

\* C1 amended: admin-post-actions changes posts or admin_activity_logs only
\* for a user_id that is an admin user; a request carrying another user_id
\* changes nothing and is answered 403, except 400 when action or post_id is
\* missing and 500 when the user_roles query fails.
C1_RoleGate ==
  Answered("admin-post-actions") =>
    /\ (~PostsUnchanged \/ ~LogsUnchanged) => IsAdminUser(last.user_id)
    /\ (last.user_id \in Users /\ ~IsAdminUser(last.user_id)) =>
         /\ PostsUnchanged /\ LogsUnchanged
         /\ last.status = IF Falsy(last.action) \/ Falsy(last.post_id) THEN 400
                          ELSE IF last.fault = "roleSelect" THEN 500
                          ELSE 403

C1_Witness ==
  /\ Answered("admin-post-actions")
  /\ last.user_id \in Users /\ ~IsAdminUser(last.user_id)
  /\ last.action = "delete" /\ last.post_id \in DOMAIN posts
  /\ last.status = 403

\* C2: a handler changes posts only for a request whose body user_id is the
\* authenticated caller that made the request.
C2_CallerIsActor ==
  (last.fn \in Functions /\ ~PostsUnchanged) => last.caller = last.user_id

BusinessMissing(r) == ~Falsy(r.business_id) /\ r.business_id \notin DOMAIN businesses
BusinessForeign(r) ==
  /\ ~Falsy(r.business_id) /\ r.business_id \in DOMAIN businesses
  /\ businesses[r.business_id] # r.user_id

BusinessPostsOwned ==
  \A p \in DOMAIN posts :
    posts[p].business_id # Null =>
      /\ posts[p].business_id \in DOMAIN businesses
      /\ businesses[posts[p].business_id] = posts[p].user_id

\* C3 as stated: every posts row with a business_id belongs to the business's
\* owner; create-post answers a missing business with 404 and another user's
\* business with 403, and inserts nothing for either.
C3_Original ==
  /\ BusinessPostsOwned
  /\ Answered("create-post") =>
       /\ BusinessMissing(last) => last.status = 404 /\ PostsUnchanged
       /\ BusinessForeign(last) => last.status = 403 /\ PostsUnchanged

\* C3 amended: every posts row with a business_id belongs to the business's
\* owner; a create-post request naming a missing business or another user's
\* business inserts nothing, and is answered 400 when user_id is missing or
\* the profile upsert fails, otherwise 404 when the business lookup fails or
\* finds nothing, otherwise 403.
C3_BusinessGate ==
  /\ BusinessPostsOwned
  /\ (Answered("create-post") /\ (BusinessMissing(last) \/ BusinessForeign(last))) =>
       /\ PostsUnchanged
       /\ last.status =
            IF Falsy(last.user_id) \/ last.fault = "profileUpsert" THEN 400
            ELSE IF BusinessMissing(last) \/ last.fault = "businessSelect" THEN 404
            ELSE 403

C3_Witness ==
  /\ Answered("create-post")
  /\ BusinessForeign(last) /\ last.user_id \in Users
  /\ ~AllMediaBlank(last)
  /\ last.status = 403

PostsHaveMedia ==
  \A p \in DOMAIN posts :
    posts[p].content # Null \/ posts[p].image_url # Null \/ posts[p].youtube_url # Null

NoMediaMessage == "Post must have content, image, or video"

\* C4 as stated: every posts row has content, image_url or youtube_url; a
\* create-post request with all three missing or empty is answered 400 with
\* 'Post must have content, image, or video' and inserts nothing.
C4_Original ==
  /\ PostsHaveMedia
  /\ (Answered("create-post") /\ AllMediaBlank(last)) =>
       last.status = 400 /\ last.msg = NoMediaMessage /\ PostsUnchanged

\* the request got past the user_id, profile and business checks
PassedEarlierChecks(r) ==
  /\ ~Falsy(r.user_id)
  /\ r.fault # "profileUpsert"
  /\ \/ Falsy(r.business_id)
     \/ /\ r.business_id \in DOMAIN businesses
        /\ r.fault # "businessSelect"
        /\ businesses[r.business_id] = r.user_id

\* C4 amended: every posts row has content, image_url or youtube_url; a
\* create-post request with all three missing or empty inserts nothing and is
\* refused, with 400 'Post must have content, image, or video' when it got
\* past the user_id, profile and business checks.
C4_MediaGate ==
  /\ PostsHaveMedia
  /\ (Answered("create-post") /\ AllMediaBlank(last)) =>
       /\ PostsUnchanged
       /\ last.status \in {400, 403, 404}
       /\ PassedEarlierChecks(last) =>
            last.status = 400 /\ last.msg = NoMediaMessage

C4_Witness ==
  /\ Answered("create-post")
  /\ AllMediaBlank(last) /\ last.content = Empty /\ PassedEarlierChecks(last)
  /\ last.status = 400 /\ last.msg = NoMediaMessage

\* C7 as stated: a request makes at most one mutating database call.
C7_Original == Len(last.writes) <= 1

\* C7 amended: a request makes at most two mutating database calls, on at
\* most two tables: create-post a profiles upsert and then a posts insert,
\* admin-post-actions a posts update or delete and then an
\* admin_activity_logs insert.
C7_AtMostTwoWrites ==
  /\ last.fn = "create-post" =>
       last.writes \in {<<>>, <<"profiles">>, <<"posts">>, <<"profiles", "posts">>}
  /\ last.fn = "admin-post-actions" =>
       last.writes \in {<<>>, <<"posts">>, <<"posts", "admin_activity_logs">>}

C7_Witness ==
  /\ last.fn = "create-post" /\ last.status = 200
  /\ last.writes = <<"profiles", "posts">>
  /\ before.profiles[last.user_id] = NoRow /\ profiles[last.user_id] # NoRow
  /\ ~PostsUnchanged

\* ------------------------------------------------------------------------
\* Properties of messaging
\* ------------------------------------------------------------------------
Participants(c) == {c.participant_one, c.participant_two}

\* C5: a caller reads a conversations row only if the caller is one of its
\* two participants, and a messages row only if the caller is a participant
\* of that message's conversation.
C5_ReadsOnlyOwn ==
  /\ lastOp.op = "selectConversations" =>
       \A c \in lastOp.rows : lastOp.caller \in Participants(c)
  /\ lastOp.op \in {"selectMessages", "fetchMessages"} =>
       \A m \in lastOp.rows :
         /\ m.conversation_id \in DOMAIN conversations
         /\ lastOp.caller \in Participants(conversations[m.conversation_id])

C5_Witness ==
  /\ lastOp.op = "selectMessages" /\ lastOp.caller = "u3"
  /\ \E m \in lastOp.rows : m.sender_id = "u2"
  /\ \E x \in DOMAIN messages : messages[x] \notin lastOp.rows

\* C10: once a participant has opened a conversation and fetchMessages has
\* completed, every message of it sent by the other participant has
\* is_read = true, and the unread count fetchConversations computes is 0.
C10_OpenMarksRead ==
  lastOp.op = "fetchMessages" =>
    /\ \A x \in DOMAIN messages :
         (messages[x].conversation_id = lastOp.conv
            /\ messages[x].sender_id # lastOp.caller) => messages[x].is_read
    /\ UnreadCount(lastOp.caller, conversations, messages, lastOp.conv) = 0

\* ------------------------------------------------------------------------
\* Properties of the follow and join handlers
\* ------------------------------------------------------------------------
SuccessToasts == {JoinedToast, LeftToast}
ErrorToasts == {JoinErrorToast, LeaveErrorToast, LoadErrorToast}

\* C6: when the mutation a follow/unfollow or join/leave handler issues
\* returns an error, isFollowing, followers, followerCount and isMember are
\* as they were before the click, no success toast is shown and an error
\* toast is shown.
C6_ErrorAborts ==
  click.outcome = "error" =>
    /\ ui = click.before
    /\ toasts \cap SuccessToasts = {}
    /\ toasts \cap ErrorToasts # {}

\* ------------------------------------------------------------------------
\* Properties of the realtime consumers
\* ------------------------------------------------------------------------
\* number of entries of list s with that id
Count(s, id) == Cardinality({i \in DOMAIN s : s[i].id = id})

EventsFor(id) == {e \in feed : e.row.id = id}

\* C8: every delivery of an INSERT event adds an entry for its row, whether
\* or not the list already holds that id; so when the feed has delivered the
\* same INSERT event k >= 2 times, items of Notifications holds that
\* notification at least k times, and messages of the Messages page holds
\* that message at least k times.
C8_DuplicateHeld ==
  lastEv.type = "INSERT" =>
    /\ lastEv.page = "notifications" =>
         /\ Count(items, lastEv.row.id) =
              Count(Slice(lastEv.before, KeptOnInsert), lastEv.row.id) + 1
         /\ lastEv.times >= 2 =>
              /\ Count(items, lastEv.row.id) >= lastEv.times
              /\ items[1] = lastEv.row /\ items[2] = lastEv.row
    /\ lastEv.page = "messages" =>
         /\ Count(page.messages, lastEv.row.id) = Count(lastEv.before, lastEv.row.id) + 1
         /\ lastEv.times >= 2 =>
              /\ Count(page.messages, lastEv.row.id) >= lastEv.times
              /\ page.messages[Len(page.messages)] = lastEv.row
              /\ page.messages[Len(page.messages) - 1] = lastEv.row

C8_Witness ==
  /\ lastEv.page = "notifications" /\ lastEv.type = "INSERT" /\ lastEv.times = 2
  /\ Count(lastEv.before, lastEv.row.id) = 1
  /\ Count(items, lastEv.row.id) = 2

\* C9: an UPDATE or DELETE event for a notification that items does not
\* hold changes nothing in items; an INSERT event delivered after the
\* notification's UPDATE leaves items holding the row unread although the
\* table has it read, and one delivered after its DELETE leaves items
\* holding a row the table no longer has.
C9_OutOfOrder ==
  lastEv.page = "notifications" =>
    /\ (lastEv.type \in {"UPDATE", "DELETE"} /\ Count(lastEv.before, lastEv.row.id) = 0) =>
         items = lastEv.before
    /\ (lastEv.type = "INSERT" /\ EventsFor(lastEv.row.id) = {}) =>
         /\ items[1] = lastEv.row
         /\ ~items[1].is_read
         /\ Count(items, lastEv.row.id) >= 1

\* the UPDATE came first and changed nothing, the INSERT came last: items
\* holds the notification unread, the table has it read, and no event that
\* could correct it is left
C9_Witness ==
  /\ lastEv.page = "notifications" /\ lastEv.type = "INSERT" /\ lastEv.times = 1
  /\ Count(lastEv.before, lastEv.row.id) = 0
  /\ EventsFor(lastEv.row.id) = {}
  /\ lastEv.row.id \in DOMAIN notifications
  /\ notifications[lastEv.row.id].is_read
  /\ ~inflight.open
  /\ Count(items, lastEv.row.id) = 1 /\ ~items[1].is_read

\* ------------------------------------------------------------------------
\* Properties of handleDeleteConversation
\* ------------------------------------------------------------------------
\* C11: when handleDeleteConversation reports 'Chat deleted successfully' for
\* a conversation, no messages row with that conversation_id remains, those
\* of the other participant included, and the conversations row is gone.
C11_DeletedChatIsGone ==
  lastOp.op = "Chat deleted successfully" =>
    /\ lastOp.conv \notin DOMAIN conversations
    /\ \A x \in DOMAIN messages : messages[x].conversation_id # lastOp.conv

C11_Witness ==
  /\ lastOp.op = "Chat deleted successfully"
  /\ \E m \in lastOp.rows : m.sender_id # lastOp.caller /\ m.id \notin DOMAIN messages
  /\ \E m \in lastOp.rows : m.sender_id = lastOp.caller
  /\ lastOp.conv \notin DOMAIN conversations

\* ------------------------------------------------------------------------
\* Further properties of the serverless handlers
\* ------------------------------------------------------------------------
ProfilesUnchanged == profiles = before.profiles

\* C12: a create-post request answered with a status other than 200 leaves
\* every table unchanged: no posts row is inserted and no profiles row is
\* created or modified.
C12_RejectedChangesNothing ==
  (last.fn = "create-post" /\ last.method = "POST" /\ last.status # 200) =>
    PostsUnchanged /\ ProfilesUnchanged

Moderated ==
  /\ last.fn = "admin-post-actions" /\ last.method = "POST"
  /\ last.status = 200 /\ last.action \in AdminActions

LoggedAction == [hide |-> "hide_post", unhide |-> "unhide_post", delete |-> "delete_post"]

\* C13: every success response to a hide, unhide or delete request comes
\* with exactly one new admin_activity_logs row, with admin_id = user_id,
\* target_type = 'post', target_id = post_id and the action's name.
C13_SuccessIsLogged ==
  Moderated =>
    /\ Len(logs) = Len(before.logs) + 1
    /\ SubSeq(logs, 1, Len(before.logs)) = before.logs
    /\ logs[Len(logs)].admin_id = last.user_id
    /\ logs[Len(logs)].target_type = "post"
    /\ logs[Len(logs)].target_id = last.post_id
    /\ logs[Len(logs)].action = LoggedAction[last.action]

\* C14: is_hidden, hidden_at and hidden_reason of every post agree:
\* is_hidden is true exactly when hidden_at is non-null and exactly when
\* hidden_reason is non-null, and a stored reason is never empty.
C14_HiddenFieldsAgree ==
  \A p \in DOMAIN posts :
    /\ posts[p].is_hidden <=> posts[p].hidden_at # Null
    /\ posts[p].is_hidden <=> posts[p].hidden_reason # Null
    /\ posts[p].hidden_reason # Empty

\* a hide without a reason has stored the default, and an unhide of a hidden
\* post has cleared the fields
C14_Witness ==
  /\ Moderated /\ last.action = "unhide"
  /\ last.post_id \in DOMAIN posts
  /\ before.posts[last.post_id].is_hidden
  /\ before.posts[last.post_id].hidden_reason = DefaultHideReason
  /\ ~posts[last.post_id].is_hidden
  /\ posts[last.post_id].hidden_at = Null /\ posts[last.post_id].hidden_reason = Null

\* C15: 'Post hidden successfully' means a posts row with id post_id exists
\* and has is_hidden = true; 'Post deleted successfully' means such a row
\* existed before the request and does not exist after it.
C15_SuccessHasEffect ==
  /\ (Moderated /\ last.action = "hide") =>
       last.post_id \in DOMAIN posts /\ posts[last.post_id].is_hidden
  /\ (Moderated /\ last.action = "delete") =>
       last.post_id \in DOMAIN before.posts /\ last.post_id \notin DOMAIN posts

\* ------------------------------------------------------------------------
\* AdminLogin
\* ------------------------------------------------------------------------
SignedInNow == login.ran /\ login.attempt.signIn = "user"

\* C16: handleLogin navigates to /admin only after a successful sign-in of a
\* user with at least one user_roles row; when that user has no row or the
\* roles query fails, the session just created is gone when handleLogin
\* returns and there is no navigation; loading is false at every return.
C16_LoginGate ==
  login.ran =>
    /\ login.navigated =>
         (SignedInNow /\ user_roles[login.attempt.user] >= 1)
    /\ (SignedInNow /\ (login.attempt.roles # "rows"
                        \/ user_roles[login.attempt.user] = 0)) =>
         (session = Null /\ ~login.navigated)
    /\ login.loading = FALSE

RoleCheckRejections == {"Failed to verify admin status",
                        "Unauthorized: Admin access required"}

\* C17: every user AdminLogin admits (one or more user_roles rows) passes
\* the role check of admin-post-actions: with no database fault, a hide,
\* unhide or delete request carrying that user's id is not answered by the
\* role check's 500 or 403, also when the user holds two or more rows.
C17_LoginAgreesWithRoleCheck ==
  (/\ last.fn = "admin-post-actions" /\ last.method = "POST"
   /\ last.fault = "none"
   /\ last.action \in AdminActions /\ ~Falsy(last.post_id)
   /\ last.user_id \in Users /\ AdminLoginAdmits(user_roles, last.user_id)) =>
    last.msg \notin RoleCheckRejections

\* ------------------------------------------------------------------------
\* Notifications: load() against the realtime callbacks and sign-out
\* ------------------------------------------------------------------------
ItemIds == {items[i].id : i \in DOMAIN items}
NoDuplicateIds == \A i, j \in DOMAIN items : items[i].id = items[j].id => i = j

\* no load() is in flight, the last one succeeded, and the feed has
\* delivered every event
LoadsAndEventsDone ==
  /\ session = SessionUser
  /\ ~inflight.open /\ ~inflight.error
  /\ feed = {}

\* C18: with every realtime event delivered once, no two entries of items
\* share an id, whatever the order of load() requests, load() responses and
\* INSERT events; and once the loads and the events have completed, every
\* notification of the table is in items.
C18_LoadAgainstInserts ==
  route = "notifications" =>
    /\ NoDuplicateIds
    /\ LoadsAndEventsDone => DOMAIN notifications \subseteq ItemIds

\* C19: when no user is signed in, items of Notifications is empty, also
\* after a load() issued before the sign-out has been answered.
C19_EmptyAfterSignOut ==
  (route = "notifications" /\ session = Null) => items = <<>>

====
